---- MODULE Spec2Model ----
(***************************************************************************)
(* A model of minstrel's Note (src/src/note.rs): an integer semitone index *)
(* with parsing (FromStr), rendering (Display), transposition (Add<usize>, *)
(* Sub<usize>), interval (Sub<Note>) and enumeration (IntoIterator).       *)
(*                                                                         *)
(* Text is a sequence of one-character strings.  usize is modelled with    *)
(* Width bits.  Plain `+`, `-`, `*` and `+=` on usize panic when the build *)
(* has overflow checks (the debug profile) and wrap modulo 2^Width when it *)
(* has not (the release profile); the profile is the variable             *)
(* overflow_checks, chosen when a run starts.                              *)
(***************************************************************************)
EXTENDS Integers, Sequences, FiniteSets, TLC

VARIABLES
    overflow_checks,  \* the build profile: TRUE = overflow checks on
    pc,               \* what the calling program has done so far
    text,             \* the &str given to from_str / the String Display wrote
    alternate,        \* f.alternate(): "{:#}" rather than "{}"
    note,             \* the caller's Note (self)
    rhs,              \* the usize operand (semitones, or other.value)
    ret,              \* the outcome of the last call
    iter,             \* the NoteIter
    calls             \* how many times next() has been called

vars == <<overflow_checks, pc, text, alternate, note, rhs, ret, iter, calls>>

----------------------------------------------------------------------------
(* Bounds *)

\* bits of a usize in the model
Width == 6

\* longest text after the (at most two-character) head of an input of from_str
MaxTail == 2

\* most calls of next() on one NoteIter
MaxNext == 14

RECURSIVE Pow2(_)
Pow2(n) == IF n = 0 THEN 1 ELSE 2 * Pow2(n - 1)

\* usize::MAX
MaxUsize == Pow2(Width) - 1

Values == 0 .. MaxUsize

----------------------------------------------------------------------------
(* Outcomes of a call *)

Ok(v)    == [kind |-> "Ok",    val |-> v, err |-> ""]
Err(e)   == [kind |-> "Err",   val |-> 0, err |-> e]
Panic(e) == [kind |-> "Panic", val |-> 0, err |-> e]
NoRet    == [kind |-> "None",  val |-> 0, err |-> ""]

----------------------------------------------------------------------------
(* usize arithmetic *)

\* x + y on usize
UAdd(x, y) ==
    IF x + y <= MaxUsize THEN Ok(x + y)
    ELSE IF overflow_checks THEN Panic("attempt to add with overflow")
    ELSE Ok((x + y) % Pow2(Width))

\* x - y on usize
USub(x, y) ==
    IF x >= y THEN Ok(x - y)
    ELSE IF overflow_checks THEN Panic("attempt to subtract with overflow")
    ELSE Ok((x - y) % Pow2(Width))

\* x * y on usize
UMul(x, y) ==
    IF x * y <= MaxUsize THEN Ok(x * y)
    ELSE IF overflow_checks THEN Panic("attempt to multiply with overflow")
    ELSE Ok((x * y) % Pow2(Width))

----------------------------------------------------------------------------
(* Note *)

\* Note::new
New(value) == [value |-> value]

DigitChars == <<"0", "1", "2", "3", "4", "5", "6", "7", "8", "9">>

IsDigit(c) == \E d \in 1 .. 10 : DigitChars[d] = c

ToDigit(c) == (CHOOSE d \in 1 .. 10 : DigitChars[d] = c) - 1

\* usize's Display: decimal, no sign, no leading zeros
RECURSIVE DecimalString(_)
DecimalString(n) ==
    IF n < 10 THEN <<DigitChars[n + 1]>>
    ELSE Append(DecimalString(n \div 10), DigitChars[(n % 10) + 1])

\* the digit loop of usize::from_str: an invalid digit, then checked_mul(10),
\* then checked_add(digit)
RECURSIVE ParseDigits(_, _)
ParseDigits(s, acc) ==
    IF s = <<>> THEN Ok(acc)
    ELSE IF ~IsDigit(Head(s)) THEN Err("InvalidDigit")
    ELSE IF acc * 10 > MaxUsize THEN Err("PosOverflow")
    ELSE IF acc * 10 + ToDigit(Head(s)) > MaxUsize THEN Err("PosOverflow")
    ELSE ParseDigits(Tail(s), acc * 10 + ToDigit(Head(s)))

\* usize::from_str: an optional "+", then digits; "-" is no sign of an
\* unsigned type and is read as a digit
UsizeFromStr(s) ==
    IF s = <<>> THEN Err("Empty")
    ELSE IF Len(s) = 1 /\ Head(s) \in {"+", "-"} THEN Err("InvalidDigit")
    ELSE IF Head(s) = "+" THEN ParseDigits(Tail(s), 0)
    ELSE ParseDigits(s, 0)

\* nom's tag(t): the input starts with t
Tag(t, s) == Len(s) >= Len(t) /\ SubSeq(s, 1, Len(t)) = t

\* the alternatives with each natural tried before the flat that shares its
\* first character
NameAltsNaturalsFirst == <<
    [tag |-> <<"C">>,      name |-> 0],
    [tag |-> <<"D">>,      name |-> 2],
    [tag |-> <<"D", "b">>, name |-> 1],
    [tag |-> <<"E">>,      name |-> 4],
    [tag |-> <<"E", "b">>, name |-> 3],
    [tag |-> <<"F">>,      name |-> 5],
    [tag |-> <<"G">>,      name |-> 7],
    [tag |-> <<"G", "b">>, name |-> 6],
    [tag |-> <<"A">>,      name |-> 9],
    [tag |-> <<"A", "b">>, name |-> 8],
    [tag |-> <<"B">>,      name |-> 11],
    [tag |-> <<"B", "b">>, name |-> 10] >>

\* the alternatives of alt((map(tag(..), |_| n), ...)), in the order written
NameAlts == <<
    [tag |-> <<"C">>,      name |-> 0],
    [tag |-> <<"D", "b">>, name |-> 1],
    [tag |-> <<"D">>,      name |-> 2],
    [tag |-> <<"E", "b">>, name |-> 3],
    [tag |-> <<"E">>,      name |-> 4],
    [tag |-> <<"F">>,      name |-> 5],
    [tag |-> <<"G", "b">>, name |-> 6],
    [tag |-> <<"G">>,      name |-> 7],
    [tag |-> <<"A", "b">>, name |-> 8],
    [tag |-> <<"A">>,      name |-> 9],
    [tag |-> <<"B", "b">>, name |-> 10],
    [tag |-> <<"B">>,      name |-> 11] >>

\* nom's alt: the first alternative that matches, with the input left over
RECURSIVE Alt(_, _)
Alt(alts, s) ==
    IF alts = <<>> THEN [matched |-> FALSE, name |-> 0, rest |-> s]
    ELSE IF Tag(Head(alts).tag, s)
         THEN [matched |-> TRUE, name |-> Head(alts).name,
               rest |-> SubSeq(s, Len(Head(alts).tag) + 1, Len(s))]
         ELSE Alt(Tail(alts), s)

\* let octave = if s.is_empty() { 0 } else { usize::from_str(s)? }
Octave(s) == IF s = <<>> THEN Ok(0) ELSE UsizeFromStr(s)

\* name and octave taken for each other: Ok(Self::new(octave + name * 12))
NameAndOctaveSwapped(name, octave) ==
    LET prod == UMul(name, 12)
    IN  IF prod.kind # "Ok" THEN prod
        ELSE LET sum == UAdd(octave, prod.val)
             IN  IF sum.kind # "Ok" THEN sum ELSE Ok(New(sum.val))

\* Ok(Self::new(name + octave * 12))
NameAndOctave(name, octave) ==
    LET prod == UMul(octave, 12)
    IN  IF prod.kind # "Ok" THEN prod
        ELSE LET sum == UAdd(name, prod.val)
             IN  IF sum.kind # "Ok" THEN sum ELSE Ok(New(sum.val))

\* <Note as FromStr>::from_str
from_str(s) ==
    LET m == Alt(NameAlts, s)
    IN  IF ~m.matched THEN Err("failed to parse note name")
        ELSE LET octave == Octave(m.rest)
             IN  IF octave.kind # "Ok" THEN octave
                 ELSE NameAndOctave(m.name, octave.val)

\* the match with sharp names for the five black keys
NoteNameSharps(value) ==
    CASE value % 12 = 0  -> Ok(<<"C">>)
      [] value % 12 = 1  -> Ok(<<"C", "#">>)
      [] value % 12 = 2  -> Ok(<<"D">>)
      [] value % 12 = 3  -> Ok(<<"D", "#">>)
      [] value % 12 = 4  -> Ok(<<"E">>)
      [] value % 12 = 5  -> Ok(<<"F">>)
      [] value % 12 = 6  -> Ok(<<"F", "#">>)
      [] value % 12 = 7  -> Ok(<<"G">>)
      [] value % 12 = 8  -> Ok(<<"G", "#">>)
      [] value % 12 = 9  -> Ok(<<"A">>)
      [] value % 12 = 10 -> Ok(<<"A", "#">>)
      [] value % 12 = 11 -> Ok(<<"B">>)
      [] OTHER           -> Panic("internal error: entered unreachable code")

\* let name = match self.value % 12 { ... }
NoteName(value) ==
    CASE value % 12 = 0  -> Ok(<<"C">>)
      [] value % 12 = 1  -> Ok(<<"D", "b">>)
      [] value % 12 = 2  -> Ok(<<"D">>)
      [] value % 12 = 3  -> Ok(<<"E", "b">>)
      [] value % 12 = 4  -> Ok(<<"E">>)
      [] value % 12 = 5  -> Ok(<<"F">>)
      [] value % 12 = 6  -> Ok(<<"G", "b">>)
      [] value % 12 = 7  -> Ok(<<"G">>)
      [] value % 12 = 8  -> Ok(<<"A", "b">>)
      [] value % 12 = 9  -> Ok(<<"A">>)
      [] value % 12 = 10 -> Ok(<<"B", "b">>)
      [] value % 12 = 11 -> Ok(<<"B">>)
      [] OTHER           -> Panic("internal error: entered unreachable code")

\* <Note as Display>::fmt
fmt(self, alt) ==
    LET name == NoteName(self.value)
    IN  IF name.kind # "Ok" THEN name
        ELSE IF alt
             THEN LET octave == self.value \div 12
                  IN  Ok(name.val \o DecimalString(octave))
             ELSE Ok(name.val)

\* <Note as Add<usize>>::add
add(self, semitones) ==
    LET value == UAdd(self.value, semitones)
    IN  IF value.kind # "Ok" THEN value ELSE Ok([value |-> value.val])

\* the subtraction with its operands the wrong way round
sub_operands_swapped(self, semitones) ==
    LET value == USub(semitones, self.value)
    IN  IF value.kind # "Ok" THEN value ELSE Ok([value |-> value.val])

\* <Note as Sub<usize>>::sub
sub(self, semitones) ==
    LET value == USub(self.value, semitones)
    IN  IF value.kind # "Ok" THEN value ELSE Ok([value |-> value.val])

\* the difference without the comparison: self.value - other.value
sub_note_unordered(self, other) == USub(self.value, other.value)

\* <Note as Sub<Note>>::sub
sub_note(self, other) ==
    IF self.value > other.value THEN USub(self.value, other.value)
    ELSE IF self.value < other.value THEN USub(other.value, self.value)
    ELSE Ok(0)

\* <Note as IntoIterator>::into_iter
into_iter(self) == [note |-> self, first |-> TRUE]

NoIter == [note |-> New(0), first |-> FALSE]

\* next() without the first flag: every call advances
next_always_advances(it) ==
    LET value == UAdd(it.note.value, 1)
    IN  IF value.kind # "Ok" THEN [iter |-> it, item |-> value]
        ELSE [iter |-> [it EXCEPT !.note = [value |-> value.val]],
              item |-> Ok([value |-> value.val])]

\* <NoteIter as Iterator>::next: the NoteIter afterwards and what is returned
next(it) ==
    IF it.first
    THEN [iter |-> [it EXCEPT !.first = FALSE], item |-> Ok(it.note)]
    ELSE LET value == UAdd(it.note.value, 1)
         IN  IF value.kind # "Ok" THEN [iter |-> it, item |-> value]
             ELSE [iter |-> [it EXCEPT !.note = [value |-> value.val]],
                   item |-> Ok([value |-> value.val])]

----------------------------------------------------------------------------
(* The inputs of from_str: a head of at most two characters, then a tail *)

HeadChars == {"C", "D", "E", "F", "G", "A", "B", "b", "#"}

TailChars == {"0", "1", "2", "5", "9", "+", "-", "b"}

Heads == {<<>>} \cup {<<a>> : a \in HeadChars}
             \cup {<<a, b>> : a \in HeadChars, b \in HeadChars}

Tails == UNION {[1 .. n -> TailChars] : n \in 0 .. MaxTail}

Texts == {h \o t : h \in Heads, t \in Tails}

----------------------------------------------------------------------------
(* The calling programs: one of four starts, then calls *)

\* a program about to parse a text
InitParse ==
    /\ pc = "parse"
    /\ text \in Texts
    /\ alternate = FALSE /\ note = New(0) /\ rhs = 0

\* a program about to render a Note
InitDisplay ==
    /\ pc = "display"
    /\ \E v \in Values : note = New(v)
    /\ alternate \in BOOLEAN
    /\ text = <<>> /\ rhs = 0

\* a program about to transpose a Note, or to take an interval
InitArith ==
    /\ pc = "arith"
    /\ \E v \in Values : note = New(v)
    /\ rhs \in Values
    /\ text = <<>> /\ alternate = FALSE

\* a program about to enumerate from a Note
InitIter ==
    /\ pc = "iter"
    /\ \E v \in Values : note = New(v)
    /\ text = <<>> /\ alternate = FALSE /\ rhs = 0

Init ==
    /\ overflow_checks \in BOOLEAN
    /\ ret = NoRet /\ iter = NoIter /\ calls = 0
    /\ (InitParse \/ InitDisplay \/ InitArith \/ InitIter)

\* Note::from_str(text), on an input or on what Display wrote
FromStr ==
    /\ pc \in {"parse", "formatted"}
    /\ ret' = from_str(text)
    /\ pc' = IF pc = "parse" THEN "parsed" ELSE "reparsed"
    /\ UNCHANGED <<overflow_checks, text, alternate, note, rhs, iter, calls>>

\* format!("{}", note) or format!("{:#}", note)
Fmt ==
    /\ pc = "display"
    /\ ret' = fmt(note, alternate)
    /\ text' = IF ret'.kind = "Ok" THEN ret'.val ELSE text
    /\ pc' = IF ret'.kind = "Ok" THEN "formatted" ELSE "panicked"
    /\ UNCHANGED <<overflow_checks, alternate, note, rhs, iter, calls>>

\* note + rhs
AddSemitones ==
    /\ pc = "arith"
    /\ ret' = add(note, rhs)
    /\ pc' = "added"
    /\ UNCHANGED <<overflow_checks, text, alternate, note, rhs, iter, calls>>

\* note - rhs
SubSemitones ==
    /\ pc = "arith"
    /\ ret' = sub(note, rhs)
    /\ pc' = "subbed"
    /\ UNCHANGED <<overflow_checks, text, alternate, note, rhs, iter, calls>>

\* (note + rhs) - rhs
SubBack ==
    /\ pc = "added" /\ ret.kind = "Ok"
    /\ ret' = sub(ret.val, rhs)
    /\ pc' = "added_subbed"
    /\ UNCHANGED <<overflow_checks, text, alternate, note, rhs, iter, calls>>

\* note - Note::new(rhs)
Interval ==
    /\ pc = "arith"
    /\ ret' = sub_note(note, New(rhs))
    /\ pc' = "interval"
    /\ UNCHANGED <<overflow_checks, text, alternate, note, rhs, iter, calls>>

\* note.into_iter()
IntoIter ==
    /\ pc = "iter"
    /\ iter' = into_iter(note)
    /\ pc' = "iterating"
    /\ UNCHANGED <<overflow_checks, text, alternate, note, rhs, ret, calls>>

\* iter.next()
IterNext ==
    /\ pc = "iterating" /\ calls < MaxNext
    /\ ret' = next(iter).item
    /\ iter' = next(iter).iter
    /\ calls' = calls + 1
    /\ pc' = IF ret'.kind = "Ok" THEN "iterating" ELSE "panicked"
    /\ UNCHANGED <<overflow_checks, text, alternate, note, rhs>>

Next ==
    \/ FromStr
    \/ Fmt
    \/ AddSemitones
    \/ SubSemitones
    \/ SubBack
    \/ Interval
    \/ IntoIter
    \/ IterNext

Spec == Init /\ [][Next]_vars

----------------------------------------------------------------------------
(* The notation, as the specification words it *)

\* the twelve names, by pitch class
NameTable == <<
    <<"C">>, <<"D", "b">>, <<"D">>, <<"E", "b">>, <<"E">>, <<"F">>,
    <<"G", "b">>, <<"G">>, <<"A", "b">>, <<"A">>, <<"B", "b">>, <<"B">> >>

AllDigits(s) == \A i \in 1 .. Len(s) : IsDigit(s[i])

\* the number a sequence of decimal digits denotes, in the integers
RECURSIVE DecValue(_)
DecValue(s) ==
    IF s = <<>> THEN 0
    ELSE 10 * DecValue(SubSeq(s, 1, Len(s) - 1)) + ToDigit(s[Len(s)])

StartsWith(s, p) == Len(s) >= Len(p) /\ SubSeq(s, 1, Len(p)) = p

After(s, p) == SubSeq(s, Len(p) + 1, Len(s))

\* s is <Name><digits?> with Name the name of pitch class i - 1
IsNameDigits(s, i) ==
    StartsWith(s, NameTable[i]) /\ AllDigits(After(s, NameTable[i]))

\* the value <Name><digits?> denotes: pitchClass + 12 * octave
Denoted(s, i) == (i - 1) + 12 * DecValue(After(s, NameTable[i]))

InvalidName == Err("failed to parse note name")

\* the errors of usize::from_str
InvalidOctave == {Err("InvalidDigit"), Err("PosOverflow"), Err("Empty")}

Abs(x) == IF x < 0 THEN -x ELSE x

----------------------------------------------------------------------------
(* Claims *)

\* C1: parsing the octave-inclusive rendering of Note::new(v) succeeds and
\* gives a Note whose value is exactly v, for every v a usize holds.
C1_RoundTrip ==
    (pc = "reparsed" /\ alternate) => ret = Ok(New(note.value))

C1_Witness ==
    /\ pc = "reparsed" /\ alternate
    /\ note = New(37) /\ text = <<"D", "b", "3">> /\ ret = Ok(New(37))

\* C2 as stated: every text <Name><digits?> parses, to pitchClass + 12 * octave.
C2_EveryNameDigitsParses ==
    pc = "parsed" =>
        \A i \in 1 .. 12 :
            IsNameDigits(text, i) => ret = Ok(New(Denoted(text, i)))

\* C2, amended: every text <Name><digits?> whose pitchClass + 12 * octave a
\* usize holds parses to the Note of that value; the two-letter flat name is
\* matched before the natural sharing its first character, and no digits
\* mean octave 0.
C2_NameDigitsParsesInRange ==
    pc = "parsed" =>
        \A i \in 1 .. 12 :
            (IsNameDigits(text, i) /\ Denoted(text, i) <= MaxUsize)
                => ret = Ok(New(Denoted(text, i)))

C2_Witness ==
    /\ pc = "parsed" /\ text = <<"D", "b", "2">> /\ ret = Ok(New(25))

\* C3 as stated: parse("Cb2") fails with the note-name error, and so does
\* every text that starts with no note name.
C3_CbIsInvalidName ==
    pc = "parsed" =>
        /\ text = <<"C", "b", "2">> => ret = InvalidName
        /\ (\A i \in 1 .. 12 : ~StartsWith(text, NameTable[i]))
               => ret = InvalidName

\* C4 as stated: once a name is matched, parse succeeds only if the rest is
\* empty or all decimal digits; any other rest, one starting with a sign
\* included, fails with the octave error.
C4_RestIsDigitsOrInvalidOctave ==
    (pc = "parsed" /\ Alt(NameAlts, text).matched) =>
        LET rest == Alt(NameAlts, text).rest
        IN  /\ ret.kind = "Ok" => (rest = <<>> \/ AllDigits(rest))
            /\ (rest # <<>> /\ ~AllDigits(rest)) => ret \in InvalidOctave

\* C5 as stated: note - semitones with semitones > note.value never returns
\* a Note (no wrapped value); otherwise it is the Note of value
\* note.value - semitones.
C5_UnderflowFails ==
    pc = "subbed" =>
        IF rhs > note.value THEN ret.kind # "Ok"
        ELSE ret = Ok(New(note.value - rhs))

\* C6: Display writes the flat name of value mod 12 and nothing more; in
\* alternate mode the name followed by value div 12 in decimal.  The
\* unreachable arm is never taken.
C6_Rendering ==
    /\ ~(pc = "panicked" /\ calls = 0)
    /\ pc = "formatted" =>
        LET name == NameTable[(note.value % 12) + 1]
            digits == After(text, name)
        IN  /\ ret = Ok(text)
            /\ StartsWith(text, name)
            /\ IF alternate
               THEN /\ digits # <<>> /\ AllDigits(digits)
                    /\ DecValue(digits) = note.value \div 12
                    /\ (Len(digits) = 1 \/ digits[1] # "0")
               ELSE digits = <<>>

C6_Witness ==
    /\ pc = "formatted" /\ alternate
    /\ note = New(37) /\ text = <<"D", "b", "3">>

\* C7: note - other is |note.value - other.value|, the same in either order,
\* 0 for equal values, and never underflows.
C7_Interval ==
    pc = "interval" =>
        /\ ret = Ok(Abs(note.value - rhs))
        /\ ret = sub_note(New(rhs), note)
        /\ note.value = rhs => ret = Ok(0)

C7_Witness ==
    /\ pc = "interval" /\ note = New(21) /\ rhs = 27 /\ ret = Ok(6)

\* C8 as stated: next() always returns an element, the k-th of value
\* s.value + (k - 1).
C8_EnumerationNeverEnds ==
    calls >= 1 => ret = Ok(New(note.value + (calls - 1)))

\* C8, amended: the k-th next() returns the Note of value s.value + (k - 1)
\* for every k with s.value + (k - 1) no more than usize::MAX: the first is
\* s itself and each is 1 above the one before.
C8_EnumerationInRange ==
    (calls >= 1 /\ note.value + (calls - 1) <= MaxUsize) =>
        /\ ret = Ok(New(note.value + (calls - 1)))
        /\ pc = "iterating"

C8_Witness ==
    /\ pc = "iterating" /\ note = New(5) /\ calls = 13 /\ ret = Ok(New(17))

\* C9: with n.value + k no more than usize::MAX, n + k has value
\* n.value + k and (n + k) - k is n.
C9_Transposition ==
    note.value + rhs <= MaxUsize =>
        /\ pc = "added" => ret = Ok(New(note.value + rhs))
        /\ pc = "added_subbed" => ret = Ok(note)

C9_Witness ==
    /\ pc = "added_subbed" /\ note = New(12) /\ rhs = 5 /\ ret = Ok(New(12))

\* C10 as stated: when the result exceeds usize::MAX, note + semitones,
\* next() and from_str end in an error, never in a Note.
C10_OverflowReported ==
    /\ (pc = "added" /\ note.value + rhs > MaxUsize) => ret.kind # "Ok"
    /\ (calls >= 1 /\ note.value + (calls - 1) = MaxUsize + 1)
           => ret.kind # "Ok"
    /\ pc = "parsed" =>
           \A i \in 1 .. 12 :
               (IsNameDigits(text, i) /\ Denoted(text, i) > MaxUsize)
                   => ret.kind # "Ok"

====
